---- MODULE Spec2Model ----
(***************************************************************************)
(* AutoTranscribe (src/AT.py): scan a directory for media files without a  *)
(* transcript sidecar, and run each through process_file on a pool of      *)
(* MAX_CONCURRENT_PROCESSES worker threads: lock directory, validation and *)
(* repair, audio extraction, Whisper transcription, repetition check,      *)
(* sidecar write, lock release.                                            *)
(*                                                                         *)
(* Strings are sequences of one-character strings, so that sanitising,     *)
(* lower-casing, splitting, joining and difflib's similarity ratio are     *)
(* computed, not assumed.  A path is a record                              *)
(*   [dir |-> directory names below the monitored root,                    *)
(*    stem |-> the file name without its suffix, ext |-> the suffix        *)
(*    without its dot].                                                    *)
(***************************************************************************)
EXTENDS Integers, Sequences, FiniteSets, TLC

VARIABLES
    files,      \* the paths that exist below the monitored directory
    txt,        \* content of every .txt sidecar a job wrote: path -> record
    locks,      \* LOCK_DIR: one record [key, owner] per existing <key>.lock directory
    recursive,  \* the --recursive flag
    stub,       \* which Transcriber is installed (how whisper answers call k)
    mainpc,     \* position of main()
    pending,    \* find_pending_files' result; one submitted job per element
    job,        \* per job: the locals of its process_file execution
    repText,    \* check_repetition's arguments and result
    repWin,
    repThr,
    repResult

vars == <<files, txt, locks, recursive, stub, mainpc, pending, job,
          repText, repWin, repThr, repResult>>

----------------------------------------------------------------------------
(* Bounds of the model *)

MaxFiles == 3        \* media files in the monitored directory (Spec)
MaxScanFiles == 3    \* files in the monitored tree (SpecScan)
MaxTextLen == 7      \* characters of a text given to check_repetition (SpecRep)
MaxWindow == 2       \* largest window_size given to check_repetition (SpecRep)
WindowSize == 2      \* window_size process_file's check runs with (100 in the code)

(* Program constants *)

MAX_RETRIES == 3
MAX_CONCURRENT_PROCESSES == 2
SKIP_DIR_NAME == "unable_to_repair_corrupt"
ThresholdNum == 9    \* threshold: float = 0.9
ThresholdDen == 10

mp3 == <<"m", "p", "3">>
wav == <<"w", "a", "v">>
mp4 == <<"m", "p", "4">>
m4a == <<"m", "4", "a">>
txtExt == <<"t", "x", "t">>
srtExt == <<"s", "r", "t">>

MEDIA_EXTENSIONS == {mp3, wav, mp4, m4a}

Min(a, b) == IF a < b THEN a ELSE b
Range(s) == {s[i] : i \in DOMAIN s}
Strs(chars, n) == UNION {[1..k -> chars] : k \in 0..n}

RECURSIVE SubsetsUpTo(_, _)
SubsetsUpTo(U, n) ==
    IF n = 0 THEN {{}}
    ELSE LET prev == SubsetsUpTo(U, n - 1)
         IN prev \cup {t \cup {x} : t \in prev, x \in U}

----------------------------------------------------------------------------
(* String helpers of the standard library, as the code uses them *)

\* str.lower() on the characters the model's suffixes are written with
LowerChar(c) ==
    CASE c = "M" -> "m"
      [] c = "P" -> "p"
      [] c = "W" -> "w"
      [] c = "A" -> "a"
      [] c = "V" -> "v"
      [] c = "T" -> "t"
      [] c = "X" -> "x"
      [] OTHER -> c

Lower(s) == [i \in DOMAIN s |-> LowerChar(s[i])]

\* the character class [a-zA-Z0-9_.-] of sanitize_name
AllowedChars == {"a", "b", "c", "m", "p", "w", "v", "t", "x", "s", "r",
                 "M", "P", "W", "A", "V", "T", "X",
                 "0", "1", "2", "3", "4", "_", ".", "-"}

\* re.sub(r'[^a-zA-Z0-9_.-]', '_', name)
sanitize_name(name) ==
    [i \in DOMAIN name |-> IF name[i] \in AllowedChars THEN name[i] ELSE "_"]

\* Path.with_suffix
with_suffix(f, e) == [f EXCEPT !.ext = e]

\* Python's s[lo:hi] on a sequence (0-based, clipped to the sequence)
PySlice(s, lo, hi) ==
    IF Min(hi, Len(s)) <= lo THEN <<>> ELSE SubSeq(s, lo + 1, Min(hi, Len(s)))

\* str.split(): the maximal runs of non-whitespace characters
RECURSIVE SplitFrom(_, _, _)
SplitFrom(s, i, cur) ==
    IF i > Len(s)
    THEN (IF cur = <<>> THEN <<>> ELSE <<cur>>)
    ELSE IF s[i] = " "
         THEN (IF cur = <<>> THEN SplitFrom(s, i + 1, <<>>)
                             ELSE <<cur>> \o SplitFrom(s, i + 1, <<>>))
         ELSE SplitFrom(s, i + 1, Append(cur, s[i]))

Split(s) == SplitFrom(s, 1, <<>>)

\* ' '.join(words)
RECURSIVE Join(_)
Join(words) ==
    IF words = <<>> THEN <<>>
    ELSE IF Len(words) = 1 THEN words[1]
    ELSE words[1] \o <<" ">> \o Join(Tail(words))

\* difflib.SequenceMatcher.find_longest_match without junk: the longest block
\* a[i..i+k-1] = b[j..j+k-1], the earliest in a, and of those the earliest in b
MatchAt(a, b, i, j, k) ==
    /\ i + k - 1 <= Len(a)
    /\ j + k - 1 <= Len(b)
    /\ \A d \in 0..(k - 1) : a[i + d] = b[j + d]

LongestLen(a, b) ==
    LET ks == {k \in 0..Min(Len(a), Len(b)) :
                 k = 0 \/ \E i \in 1..Len(a), j \in 1..Len(b) : MatchAt(a, b, i, j, k)}
    IN CHOOSE k \in ks : \A m \in ks : m <= k

\* SequenceMatcher.get_matching_blocks: the number of matched characters, found
\* by taking the longest block and recursing to its left and to its right
RECURSIVE MatchCount(_, _)
MatchCount(a, b) ==
    LET k == LongestLen(a, b)
    IN IF k = 0 THEN 0
       ELSE LET is == {i \in 1..Len(a) : \E j \in 1..Len(b) : MatchAt(a, b, i, j, k)}
                i  == CHOOSE x \in is : \A y \in is : x <= y
                js == {j \in 1..Len(b) : MatchAt(a, b, i, j, k)}
                j  == CHOOSE x \in js : \A y \in js : x <= y
            IN k + MatchCount(PySlice(a, 0, i - 1), PySlice(b, 0, j - 1))
                 + MatchCount(PySlice(a, i + k - 1, Len(a)), PySlice(b, j + k - 1, Len(b)))

\* SequenceMatcher(None, a, b).ratio() > num/den, where ratio is 2.0*M/T and
\* 1.0 when both strings are empty
RatioAbove(a, b, num, den) ==
    LET T == Len(a) + Len(b)
    IN IF T = 0 THEN den > num
       ELSE 2 * MatchCount(a, b) * den > num * T

----------------------------------------------------------------------------
(* check_repetition *)

\* adjacent windows words[i:i+window_size] and words[i+window_size:i+window_size*2],
\* joined and compared: similarity > threshold
WindowsSimilar(words, i, num, ws) ==
    RatioAbove(Join(PySlice(words, i, i + ws)),
               Join(PySlice(words, i + ws, i + ws * 2)),
               num, ThresholdDen)

LoopEndFullWindows(words, ws) == Len(words) - ws * 2 + 1

\* range(len(words) - window_size): the loop's exclusive upper end
LoopEnd(words, ws) == Len(words) - ws

RECURSIVE RepLoop(_, _, _, _)
RepLoop(words, i, num, ws) ==
    IF i >= LoopEnd(words, ws) THEN FALSE
    ELSE IF WindowsSimilar(words, i, num, ws) THEN TRUE
    ELSE RepLoop(words, i + 1, num, ws)

check_repetition(text, num, ws) ==
    LET words == Split(text)
    IN IF Len(words) < ws * 2 THEN FALSE ELSE RepLoop(words, 0, num, ws)

----------------------------------------------------------------------------
(* find_pending_files *)

\* monitor_dir.glob("**/*") or monitor_dir.glob("*")
Glob(rec, fs) == IF rec THEN fs ELSE {f \in fs : f.dir = <<>>}

\* the directory components of f.parts below the monitored root (the last part,
\* a name with a media suffix, is never SKIP_DIR_NAME)
Parts(f) == Range(f.dir)

SkipFilterNone(rec, found) == found

\* if recursive: drop what lies under a directory named SKIP_DIR_NAME
SkipFilter(rec, found) ==
    IF rec THEN {f \in found : SKIP_DIR_NAME \notin Parts(f)} ELSE found

IsMedia(f) == Lower(f.ext) \in MEDIA_EXTENSIONS

HasSidecarTxtOnly(f, fs) == with_suffix(f, txtExt) \in fs

\* txt_exists or srt_exists
HasSidecar(f, fs) ==
    with_suffix(f, txtExt) \in fs \/ with_suffix(f, srtExt) \in fs

find_pending_files(rec, fs) ==
    {f \in SkipFilter(rec, Glob(rec, fs)) : IsMedia(f) /\ ~HasSidecar(f, fs)}

----------------------------------------------------------------------------
(* The environment: the monitored directory, the collaborators *)

Path(d, s, e) == [dir |-> d, stem |-> s, ext |-> e]

\* the media files the monitored directory may hold when main() starts (Spec):
\* three that share the base name "a", one whose name sanitize_name changes,
\* and a subtitle sidecar
MainUniverse ==
    {Path(<<>>, <<"a">>, mp3), Path(<<>>, <<"a">>, wav), Path(<<>>, <<"a">>, mp4),
     Path(<<>>, <<"#">>, m4a), Path(<<>>, <<"a">>, srtExt)}

\* the tree find_pending_files may be given (SpecScan)
ScanDirs == {<<>>, <<"sub">>, <<SKIP_DIR_NAME, "sub">>}
ScanExts == {mp3, <<"M", "P", "3">>, m4a, txtExt, srtExt, <<"d", "o", "c">>}
ScanUniverse ==
    {Path(d, s, e) : d \in ScanDirs, s \in {<<"a">>, <<"b">>}, e \in ScanExts}

\* the Transcriber installed: how the k-th whisper call of a job ends
StubKinds == {"ok", "loop", "nonzero", "flaky"}

\* stdout of a good run: four different words
GoodText == <<"a", " ", "b", " ", "c", " ", "d">>

RECURSIVE RepeatWord(_, _)
RepeatWord(w, n) ==
    IF n = 0 THEN <<>> ELSE IF n = 1 THEN w ELSE w \o <<" ">> \o RepeatWord(w, n - 1)

\* stdout of a looping run: one word, 2*window_size times
LoopText == RepeatWord(<<"a">>, 2 * WindowSize)

StubOutcome(kind, k) ==
    CASE kind = "ok"      -> [exit |-> "zero", stdout |-> GoodText]
      [] kind = "loop"    -> [exit |-> "zero", stdout |-> LoopText]
      [] kind = "nonzero" -> [exit |-> "nonzero", stdout |-> <<>>]
      [] kind = "flaky"   -> IF k = 1 THEN [exit |-> "timeout", stdout |-> <<>>]
                             ELSE IF k < MAX_RETRIES
                             THEN [exit |-> "nonzero", stdout |-> <<>>]
                             ELSE [exit |-> "zero", stdout |-> GoodText]

\* what lines 203-207 hand to line 214 as creation_date: nothing (no tag, or
\* File raised and line 208 caught it), a string in the format strptime is given,
\* a string in another format (ValueError, caught at line 216), or a tag value
\* that is no string, as mutagen's ID3TimeStamp for TDRC/TDOR (strptime raises
\* TypeError, which only line 228 catches)
MetaKinds == {"none", "date_ok", "date_bad", "not_str"}

\* the owner recorded for a lock directory a crashed earlier run left behind
StaleOwner == Path(<<>>, <<>>, <<>>)

\* LOCK_DIR when main() starts: empty, or holding a stale a.lock
StartLocks == {{}, {[key |-> <<"a">>, owner |-> StaleOwner]}}

NewJob(f) ==
    [pc |-> "queued", path |-> f, key |-> <<>>, acquired |-> FALSE,
     probe |-> "none", conv |-> "none", calls |-> 0, exit |-> "none",
     text |-> <<>>, status |-> "Queued", raised |-> FALSE, raisedAt |-> "none"]

\* lock_file.exists()
LockExists(k) == \E l \in locks : l.key = k

Running == {j \in pending : job[j].pc \notin {"queued", "done"}}

----------------------------------------------------------------------------
(* Initial states *)

RepIdle ==
    /\ repText = <<>>
    /\ repWin = 1
    /\ repThr = ThresholdNum
    /\ repResult = "unset"

Init ==
    /\ files \in SubsetsUpTo(MainUniverse, MaxFiles)
    /\ txt = <<>>
    /\ locks \in StartLocks
    /\ recursive = FALSE
    /\ stub \in StubKinds
    /\ mainpc = "start"
    /\ pending = {}
    /\ job = <<>>
    /\ RepIdle

----------------------------------------------------------------------------
(* main *)

\* lines 271-275: scan, then submit one process_file per pending file
Scan ==
    /\ mainpc = "start"
    /\ pending' = find_pending_files(recursive, files)
    /\ job' = [f \in pending' |-> NewJob(f)]
    /\ mainpc' = "pool"
    /\ UNCHANGED <<files, txt, locks, recursive, stub, repText, repWin, repThr, repResult>>

ExitKindUncaught == IF \E j \in pending : job[j].raised THEN "crashed" ELSE "exit"

\* lines 278-281: future.result() re-raises a job's exception and main logs it,
\* so main returns normally whatever the jobs raised
ExitKind == "exit"

\* lines 274-281: the with block ends when every future is done; after a
\* signal, ThreadPoolExecutor.__exit__ (shutdown(wait=True)) waits for them too
\* before SystemExit(0) leaves main
MainExit ==
    /\ mainpc \in {"pool", "shutdown"}
    /\ \A j \in pending : job[j].pc = "done"
    /\ mainpc' = IF mainpc = "pool" THEN ExitKind ELSE "sysexit"
    /\ UNCHANGED <<files, txt, locks, recursive, stub, pending, job,
                   repText, repWin, repThr, repResult>>

\* lines 256-258 and 267-268: SIGINT or SIGTERM runs signal_handler in the main
\* thread, and sys.exit(0) raises SystemExit there: before the pool exists main
\* ends at once; inside the with block the executor is shut down with wait=True,
\* which cancels nothing and kills no subprocess
Signal ==
    /\ mainpc \in {"start", "pool"}
    /\ mainpc' = IF mainpc = "start" THEN "sysexit" ELSE "shutdown"
    /\ UNCHANGED <<files, txt, locks, recursive, stub, pending, job,
                   repText, repWin, repThr, repResult>>

\* a termination signal has been handled
Signalled == mainpc \in {"shutdown", "sysexit"}

----------------------------------------------------------------------------
(* process_file, one action per step that touches the file system *)

Upd(j, r) == job' = [job EXCEPT ![j] = r]

\* rename_file: the sanitised name; the file is moved when the name changes
Renamed(f) == [f EXCEPT !.stem = sanitize_name(f.stem), !.ext = sanitize_name(f.ext)]

WorkerFreeAlways == TRUE

\* line 274: max_workers threads, each running one job at a time
WorkerFree == Cardinality(Running) < MAX_CONCURRENT_PROCESSES

\* a worker thread takes the job: lines 166-169
Start(j) ==
    /\ mainpc \in {"pool", "shutdown"}
    /\ job[j].pc = "queued"
    /\ WorkerFree
    /\ LET new == Renamed(job[j].path)
       IN /\ files' = IF new # job[j].path /\ job[j].path \in files
                      THEN (files \ {job[j].path}) \cup {new}
                      ELSE files
          /\ Upd(j, [job[j] EXCEPT !.pc = "check", !.path = new, !.key = new.stem,
                                   !.status = "Running"])
    /\ UNCHANGED <<txt, locks, recursive, stub, mainpc, pending,
                   repText, repWin, repThr, repResult>>

\* lines 171-173
CheckLock(j) ==
    /\ job[j].pc = "check"
    /\ IF LockExists(job[j].key)
       THEN Upd(j, [job[j] EXCEPT !.pc = "done", !.status = "Skipped"])
       ELSE Upd(j, [job[j] EXCEPT !.pc = "mkdir"])
    /\ UNCHANGED <<files, txt, locks, recursive, stub, mainpc, pending,
                   repText, repWin, repThr, repResult>>

\* lines 176-178: mkdir(exist_ok=False) creates the lock or raises FileExistsError,
\* which leaves the try block through finally
Acquire(j) ==
    /\ job[j].pc = "mkdir"
    /\ IF LockExists(job[j].key)
       THEN /\ Upd(j, [job[j] EXCEPT !.pc = "finally", !.raised = TRUE,
                                     !.raisedAt = "mkdir"])
            /\ UNCHANGED locks
       ELSE /\ locks' = locks \cup {[key |-> job[j].key, owner |-> j]}
            /\ Upd(j, [job[j] EXCEPT !.pc = "validate", !.acquired = TRUE])
    /\ UNCHANGED <<files, txt, recursive, stub, mainpc, pending,
                   repText, repWin, repThr, repResult>>

NeedsConversion(f) == Lower(f.ext) \in {mp4, m4a}

\* lines 180-185: is_valid_media_file, then attempt_repair when it fails; the
\* repaired copy replaces the original or is deleted, so files is unchanged
Validate(j) ==
    /\ job[j].pc = "validate"
    /\ \E valid \in BOOLEAN, repaired \in BOOLEAN :
         LET ok == job[j].path \in files /\ (valid \/ repaired)
         IN IF ok
            THEN Upd(j, [job[j] EXCEPT
                           !.probe = "passed",
                           !.pc = IF NeedsConversion(job[j].path)
                                  THEN "convert" ELSE "transcribe"])
            ELSE Upd(j, [job[j] EXCEPT !.probe = "unrepairable", !.pc = "finally",
                                       !.status = "Failed"])
    /\ UNCHANGED <<files, txt, locks, recursive, stub, mainpc, pending,
                   repText, repWin, repThr, repResult>>

ConvertNextIgnored(ok) == "transcribe"

\* lines 189-191: return when convert_to_audio failed, else go on
ConvertNext(ok) == IF ok THEN "transcribe" ELSE "finally"

\* lines 187-191: convert_to_audio writes <base>.mp3, or fails and the job returns
Convert(j) ==
    /\ job[j].pc = "convert"
    /\ \E ok \in BOOLEAN :
         LET audio == with_suffix(job[j].path, mp3)
         IN IF ok
            THEN /\ files' = files \cup {audio}
                 /\ Upd(j, [job[j] EXCEPT !.conv = "ok", !.path = audio,
                                          !.pc = ConvertNext(ok)])
            ELSE /\ files' = files
                 /\ Upd(j, [job[j] EXCEPT !.conv = "failed", !.pc = ConvertNext(ok),
                                          !.status = "Failed"])
    /\ UNCHANGED <<txt, locks, recursive, stub, mainpc, pending,
                   repText, repWin, repThr, repResult>>

\* lines 193-196 and transcribe_chunk: one whisper call; stdout on exit 0, else ""
Transcribe(j) ==
    /\ job[j].pc = "transcribe"
    /\ IF job[j].path \in files
       THEN LET out == StubOutcome(stub, job[j].calls + 1)
            IN Upd(j, [job[j] EXCEPT
                         !.calls = @ + 1, !.exit = out.exit,
                         !.text = IF out.exit = "zero" THEN out.stdout ELSE <<>>,
                         !.pc = "persist"])
       ELSE Upd(j, [job[j] EXCEPT !.pc = "finally", !.status = "Failed"])
    /\ UNCHANGED <<files, txt, locks, recursive, stub, mainpc, pending,
                   repText, repWin, repThr, repResult>>

WritesAlways(text) == TRUE

\* line 197: the sidecar is written unless check_repetition flags the text
Writes(text) == ~check_repetition(text, ThresholdNum, WindowSize)

\* lines 197-229: repetition check, creation date, sidecar write
Persist(j) ==
    /\ job[j].pc = "persist"
    /\ IF ~Writes(job[j].text)
       THEN /\ Upd(j, [job[j] EXCEPT !.pc = "finally", !.status = "Failed"])
            /\ UNCHANGED <<files, txt>>
       ELSE \E meta \in MetaKinds :
              IF meta = "not_str"
              THEN /\ Upd(j, [job[j] EXCEPT !.pc = "finally", !.status = "Failed"])
                   /\ UNCHANGED <<files, txt>>
              ELSE LET out == with_suffix(job[j].path, txtExt)
                   IN /\ files' = files \cup {out}
                      /\ txt' = [p \in DOMAIN txt \cup {out} |->
                                   IF p = out
                                   THEN [header |-> meta = "date_ok",
                                         body |-> job[j].text]
                                   ELSE txt[p]]
                      /\ Upd(j, [job[j] EXCEPT !.pc = "finally",
                                               !.status = "Persisted"])
    /\ UNCHANGED <<locks, recursive, stub, mainpc, pending,
                   repText, repWin, repThr, repResult>>

\* line 234
FinallyCheck(j) ==
    /\ job[j].pc = "finally"
    /\ IF LockExists(job[j].key)
       THEN Upd(j, [job[j] EXCEPT !.pc = "rmdir"])
       ELSE Upd(j, [job[j] EXCEPT !.pc = "done"])
    /\ UNCHANGED <<files, txt, locks, recursive, stub, mainpc, pending,
                   repText, repWin, repThr, repResult>>

RmdirNothing(ls, k) == ls

\* Path.rmdir on <key>.lock
Rmdir(ls, k) == {l \in ls : l.key # k}

\* line 235: rmdir removes the lock, or raises FileNotFoundError when another
\* worker removed it since line 234
Release(j) ==
    /\ job[j].pc = "rmdir"
    /\ IF LockExists(job[j].key)
       THEN /\ locks' = Rmdir(locks, job[j].key)
            /\ Upd(j, [job[j] EXCEPT !.pc = "done"])
       ELSE /\ locks' = locks
            /\ Upd(j, [job[j] EXCEPT !.pc = "done", !.raised = TRUE,
                                     !.raisedAt = "rmdir"])
    /\ UNCHANGED <<files, txt, recursive, stub, mainpc, pending,
                   repText, repWin, repThr, repResult>>

Next ==
    \/ Scan
    \/ MainExit
    \/ Signal
    \/ \E j \in pending : Start(j)
    \/ \E j \in pending : CheckLock(j)
    \/ \E j \in pending : Acquire(j)
    \/ \E j \in pending : Validate(j)
    \/ \E j \in pending : Convert(j)
    \/ \E j \in pending : Transcribe(j)
    \/ \E j \in pending : Persist(j)
    \/ \E j \in pending : FinallyCheck(j)
    \/ \E j \in pending : Release(j)

\* the steps of the program whose guards decide whether it can go on: all of
\* Next but the arrival of a signal and Persist, which a job at "persist" can
\* always take
ProgNext ==
    \/ Scan
    \/ MainExit
    \/ \E j \in pending : Start(j)
    \/ \E j \in pending : CheckLock(j)
    \/ \E j \in pending : Acquire(j)
    \/ \E j \in pending : Validate(j)
    \/ \E j \in pending : Convert(j)
    \/ \E j \in pending : Transcribe(j)
    \/ \E j \in pending : FinallyCheck(j)
    \/ \E j \in pending : Release(j)

Spec == Init /\ [][Next]_vars

----------------------------------------------------------------------------
(* find_pending_files alone, on a directory tree *)

InitScan ==
    /\ files \in SubsetsUpTo(ScanUniverse, MaxScanFiles)
    /\ txt = <<>>
    /\ locks = {}
    /\ recursive \in BOOLEAN
    /\ stub = "ok"
    /\ mainpc = "start"
    /\ pending = {}
    /\ job = <<>>
    /\ RepIdle

SpecScan == InitScan /\ [][Scan]_vars

----------------------------------------------------------------------------
(* check_repetition alone, on every short text *)

TextChars == {"a", "b", " "}

\* the thresholds tried: the code's 0.9 and a lower one
RepThresholds == {4, ThresholdNum}

InitRep ==
    /\ files = {}
    /\ txt = <<>>
    /\ locks = {}
    /\ recursive = FALSE
    /\ stub = "ok"
    /\ mainpc = "start"
    /\ pending = {}
    /\ job = <<>>
    /\ repText \in Strs(TextChars, MaxTextLen)
    /\ repWin \in 1..MaxWindow
    /\ repThr \in RepThresholds
    /\ repResult = "unset"

CheckRep ==
    /\ repResult = "unset"
    /\ repResult' = IF check_repetition(repText, repThr, repWin)
                    THEN "flagged" ELSE "clean"
    /\ UNCHANGED <<files, txt, locks, recursive, stub, mainpc, pending, job,
                   repText, repWin, repThr>>

SpecRep == InitRep /\ [][CheckRep]_vars

----------------------------------------------------------------------------
(* Properties *)

Done(j) == job[j].pc = "done"

\* past the acquire step: running validate, convert, transcribe or persist
InCritical(j) == job[j].pc \in {"validate", "convert", "transcribe", "persist"}

\* the sidecar process_file writes for job j
Sidecar(j) == with_suffix(job[j].path, txtExt)

\* C1: for every lock key, at most one process_file execution at a time is past
\* the acquire step and running the validate/convert/transcribe/persist steps
C1_ExclusiveLock ==
    \A j1 \in pending, j2 \in pending :
        (j1 # j2 /\ InCritical(j1) /\ InCritical(j2)) => job[j1].key # job[j2].key

\* C2: an execution that acquired the lock and has ended has left no lock of its
\* own behind: the lock object it created is gone
C2_LockReleased ==
    \A j \in pending :
        (Done(j) /\ job[j].acquired) => ~(\E l \in locks : l.owner = j)

\* an execution that acquired the lock ended on an early return (conversion
\* failed) and another one ended after persisting
C2_Witness ==
    /\ \E j \in pending : Done(j) /\ job[j].acquired /\ job[j].conv = "failed"
    /\ \E j \in pending : Done(j) /\ job[j].acquired /\ job[j].status = "Persisted"

\* C3: a job on a file that passed validation, whose conversion (if any) worked
\* and whose Transcriber call exited 0 with the non-repetitive text, ends with the
\* sidecar <basename>.txt holding that text, and the file is not pending again
C3_RoundTrip ==
    \A j \in pending :
        (/\ Done(j)
         /\ job[j].acquired
         /\ job[j].probe = "passed"
         /\ job[j].calls >= 1
         /\ job[j].exit = "zero"
         /\ job[j].text = GoodText)
        => /\ Sidecar(j) \in files
           /\ Sidecar(j) \in DOMAIN txt
           /\ txt[Sidecar(j)].body = GoodText
           /\ job[j].path \notin find_pending_files(recursive, files)

\* C4: after a scan, no returned path has a .txt or .srt sibling of its base name
C4_NoSidecarPending ==
    mainpc = "pool" =>
        \A f \in pending :
            /\ with_suffix(f, txtExt) \notin files
            /\ with_suffix(f, srtExt) \notin files

\* a recursive scan met a media file whose only sidecar is an .srt, and left it out
C4_Witness ==
    /\ mainpc = "pool"
    /\ recursive
    /\ \E f \in files :
         /\ f.ext = mp3
         /\ f.dir # <<>>
         /\ with_suffix(f, srtExt) \in files
         /\ with_suffix(f, txtExt) \notin files
         /\ f \notin pending

\* the same letter, whatever its case
CasePairs == {<<"M", "m">>, <<"P", "p">>, <<"W", "w">>, <<"A", "a">>, <<"V", "v">>}
SameLetter(c, d) == c = d \/ <<c, d>> \in CasePairs \/ <<d, c>> \in CasePairs
SameIgnoringCase(e, m) ==
    Len(e) = Len(m) /\ \A i \in 1..Len(e) : SameLetter(e[i], m[i])

\* the reference set of C5
RefPending ==
    {f \in files :
        /\ IF recursive THEN ~(\E i \in 1..Len(f.dir) : f.dir[i] = SKIP_DIR_NAME)
                        ELSE Len(f.dir) = 0
        /\ \E m \in {mp3, wav, mp4, m4a} : SameIgnoringCase(f.ext, m)
        /\ [dir |-> f.dir, stem |-> f.stem, ext |-> txtExt] \notin files
        /\ [dir |-> f.dir, stem |-> f.stem, ext |-> srtExt] \notin files}

Window1(words, i, ws) == PySlice(words, i, i + ws)
Window2(words, i, ws) == PySlice(words, i + ws, i + 2 * ws)

\* C7: check_repetition flags a text iff it has at least 2*windowSize words and
\* some start index i in 0..len-windowSize-1 has adjacent windows of similarity
\* above the threshold; a shorter text is never flagged, and two identical
\* windows back to back are always flagged
C7_Detector ==
    repResult # "unset" =>
        LET words == Split(repText)
            n == Len(words)
            flagged == repResult = "flagged"
        IN /\ flagged <=>
                (/\ n >= 2 * repWin
                 /\ \E i \in 0..(n - repWin - 1) :
                        RatioAbove(Join(Window1(words, i, repWin)),
                                   Join(Window2(words, i, repWin)),
                                   repThr, ThresholdDen))
           /\ n < 2 * repWin => ~flagged
           /\ (n = 2 * repWin /\ Window1(words, 0, repWin) = Window2(words, 0, repWin))
                  => flagged

\* a text flagged only by its last start index, where the second window is cut
\* short by the end of the text
C7_Witness ==
    /\ repResult = "flagged"
    /\ repWin = 2
    /\ LET words == Split(repText)
       IN /\ Len(words) = 4
          /\ ~WindowsSimilar(words, 0, repThr, repWin)
          /\ WindowsSimilar(words, 1, repThr, repWin)

\* where C8 says an unrepairable file goes
Quarantined(f) == [f EXCEPT !.dir = Append(f.dir, SKIP_DIR_NAME)]

\* C8: a job whose validation and repair both failed has moved the file into
\* unable_to_repair_corrupt, so that no later scan returns it
C8_Quarantine ==
    \A j \in pending :
        (Done(j) /\ job[j].probe = "unrepairable")
        => /\ Quarantined(job[j].path) \in files
           /\ job[j].path \notin files
           /\ job[j].path \notin find_pending_files(TRUE, files)
           /\ job[j].path \notin find_pending_files(FALSE, files)

\* C9: with a Transcriber that fails calls 1 and 2 and exits 0 on call 3, a job
\* that reached the transcription step makes MAX_RETRIES calls, ends Persisted,
\* and its sidecar holds the text of call 3
C9_Retry ==
    \A j \in pending :
        (Done(j) /\ stub = "flaky" /\ job[j].calls >= 1)
        => /\ job[j].calls = MAX_RETRIES
           /\ job[j].status = "Persisted"
           /\ Sidecar(j) \in DOMAIN txt
           /\ txt[Sidecar(j)].body = GoodText

\* C10: a job whose every Transcriber call failed leaves no .txt or .srt sidecar,
\* and the next scan returns the file again
C10_NoFailureMarker ==
    \A j \in pending :
        (Done(j) /\ job[j].calls >= 1 /\ job[j].exit \in {"nonzero", "timeout"})
        => /\ Sidecar(j) \notin files
           /\ with_suffix(job[j].path, srtExt) \notin files
           /\ job[j].path \in find_pending_files(recursive, files)

\* C11: no job runs while a lock left by an earlier process is still there for
\* its key: stale locks are removed before any job is dispatched
C11_StaleSwept ==
    \A j \in pending :
        job[j].pc # "queued" =>
            ~(\E l \in locks : l.owner = StaleOwner /\ l.key = job[j].key)

\* C12: main never returns on its own while a file is still pending: without a
\* termination signal it scans and dispatches again
C12_ScansAgain ==
    ~(mainpc = "exit" /\ find_pending_files(recursive, files) # {})

\* C13: no process_file execution raises an exception to the pool
C13_NothingEscapes == \A j \in pending : ~job[j].raised

\* C14: a job whose conversion failed never calls the Transcriber, never converts
\* again, writes no sidecar, ends Failed and leaves no lock of its own
C14_ConversionTerminal ==
    \A j \in pending :
        job[j].conv = "failed" =>
            /\ job[j].pc \in {"finally", "rmdir", "done"}
            /\ job[j].calls = 0
            /\ job[j].status = "Failed"
            /\ Done(j) => ~(\E l \in locks : l.owner = j)

\* the conversion of an .mp4 failed in a job that held the lock, and the job ended
C14_Witness ==
    \E j \in pending :
        /\ j.ext = mp4
        /\ job[j].acquired
        /\ job[j].conv = "failed"
        /\ Done(j)

\* C15: the release step never fails
C15_ReleaseNeverFails == \A j \in pending : job[j].raisedAt # "rmdir"

\* the chunk length and the recordings' durations of C16, in one time unit; the
\* .wav recording is the one above the size threshold
ChunkLength == 2
Duration(f) == IF f.ext = wav THEN 5 ELSE 1
Oversize(f) == f.ext = wav
CeilDiv(a, b) == (a + b - 1) \div b

\* C16: a job on an audio file above the size threshold that reached the
\* transcription step made one Transcriber call per chunk, ceil(D / L) of them
C16_Chunked ==
    \A j \in pending :
        (Done(j) /\ job[j].calls >= 1 /\ Oversize(job[j].path))
        => job[j].calls = CeilDiv(Duration(job[j].path), ChunkLength)

\* C17: once a termination signal has been handled, no job that has not started
\* begins executing
C17_NoStartAfterSignal ==
    [][Signalled =>
          \A j \in pending : job[j].pc = "queued" => job'[j].pc = "queued"]_vars

\* C18: at most MAX_CONCURRENT_PROCESSES process_file executions are in flight
C18_BoundedConcurrency == Cardinality(Running) <= MAX_CONCURRENT_PROCESSES

\* the pool is full while another job waits in the queue
C18_Witness ==
    /\ Cardinality(Running) = MAX_CONCURRENT_PROCESSES
    /\ \E j \in pending : job[j].pc = "queued"

\* how far main and the jobs have come
PcRank(pc) ==
    CASE pc = "queued" -> 0
      [] pc = "check" -> 1
      [] pc = "mkdir" -> 2
      [] pc = "validate" -> 3
      [] pc = "convert" -> 4
      [] pc = "transcribe" -> 5
      [] pc = "persist" -> 6
      [] pc = "finally" -> 7
      [] pc = "rmdir" -> 8
      [] pc = "done" -> 9

MainRank ==
    CASE mainpc = "start" -> 0
      [] mainpc = "pool" -> 1
      [] mainpc = "shutdown" -> 2
      [] OTHER -> 3

RECURSIVE SumRank(_, _)
SumRank(js, jb) ==
    IF js = {} THEN 0
    ELSE LET j == CHOOSE x \in js : TRUE
         IN PcRank(jb[j].pc) + SumRank(js \ {j}, jb)

\* main has returned (or left through SystemExit) and every submitted job ended
AllOver == mainpc \in {"exit", "sysexit"} /\ \A j \in pending : Done(j)

\* C19: whatever the jobs did (failed, raised), main never aborts and the program
\* can always take a further step until main has ended with every submitted job
\* at its end: no job's failure keeps another job from running to its end
C19_Isolation ==
    /\ mainpc # "crashed"
    /\ \/ AllOver
       \/ \E j \in pending : job[j].pc = "persist"
       \/ ENABLED ProgNext

\* every step brings main or one job forward, so the steps of C19 come to an end
RankGrows ==
    [][MainRank' + SumRank(pending', job') > MainRank + SumRank(pending, job)]_vars

\* main returned normally after one job raised and another one, started after
\* it, persisted
C19_Witness ==
    /\ mainpc = "exit"
    /\ \E j1 \in pending, j2 \in pending :
         /\ job[j1].raised
         /\ job[j2].status = "Persisted"
         /\ Done(j1) /\ Done(j2)

\* C20: the lock a job created stays in place while that job is running its
\* validate, convert, transcribe and persist steps: nobody else removes it
C20_OwnerHolds ==
    \A j \in pending : InCritical(j) => \E l \in locks : l.owner = j

====
